---- MODULE Spec2Model ----
(***************************************************************************)
(* Model of src/app.py: a Flask + paho-mqtt + pymongo telemetry backend.   *)
(*                                                                         *)
(* Two execution contexts share the store and the readiness gate:          *)
(*   - the main thread: init_mongo() at module load, then (when run as     *)
(*     __main__) ensure_indexes(), mongo_ready.set(), thread start,        *)
(*     app.run();                                                          *)
(*   - the MQTT worker thread: start_mqtt(), on_connect(), on_message().   *)
(* The REST handlers run in the request-serving context.                   *)
(*                                                                         *)
(* JSON values are tagged records; a Python dict is a function whose       *)
(* DOMAIN is the set of keys that are present.                             *)
(***************************************************************************)
EXTENDS Integers, Sequences, FiniteSets, TLC

VARIABLES
    main_pc,      \* position of the main thread
    is_main,      \* TRUE: run as a script (__name__ == "__main__"); FALSE: imported by a WSGI host
    mongo_up,     \* environment: the store currently answers calls
    mongo_db,     \* the global mongo_db: "None" or "db"
    init_err,     \* the except branch init_mongo took, "" if none
    mongo_ready,  \* the threading.Event mongo_ready
    indexes,      \* collections whose received_at index exists
    worker_pc,    \* position of the MQTT worker thread (start_mqtt)
    subs,         \* subscriptions made by on_connect: set of <<topic, qos>>
    connack,      \* <<rc>> once on_connect ran with return code rc, <<>> before
    msg_pc,       \* position inside on_message: "idle", "waiting", "done"
    cur,          \* the message on_message is handling / handled last
    waited,       \* result of this handling's mongo_ready.wait: "none", "true", "timeout"
    logs,         \* number of lines printed by this handling of cur
    imu,          \* collection imu, in insertion order
    gps,          \* collection gps, in insertion order
    clock,        \* datetime.now(timezone.utc)
    req,          \* the request being answered / answered last
    resp          \* its response

vars == <<main_pc, is_main, mongo_up, mongo_db, init_err, mongo_ready, indexes,
          worker_pc, subs, connack, msg_pc, cur, waited, logs, imu, gps, clock, req, resp>>

startupVars == <<main_pc, is_main, mongo_db, init_err, mongo_ready, indexes>>
workerVars  == <<worker_pc, subs, connack>>
msgVars     == <<msg_pc, cur, waited, logs>>
storeVars   == <<imu, gps>>
apiVars     == <<req, resp>>

----------------------------------------------------------------------------
(* Bounds *)

MaxDocs  == 2     \* documents held by both collections together
MaxClock == 2     \* instants the clock runs through: 1..MaxClock

----------------------------------------------------------------------------
(* JSON values *)

JNull    == [t |-> "null"]
JNum(n)  == [t |-> "num", n |-> n]
JStr(s)  == [t |-> "str", s |-> s]
JObj(f)  == [t |-> "obj", f |-> f]

MQTT_TOPIC_IMU == "/mobile/imu"
MQTT_TOPIC_GPS == "/mobile/gps"
OtherTopic     == "/mobile/other"
Topics         == {MQTT_TOPIC_IMU, MQTT_TOPIC_GPS, OtherTopic}

\* dict.get(key, default)
DictGet(d, k, default) == IF k \in DOMAIN d THEN d[k] ELSE default

----------------------------------------------------------------------------
(* Inbound messages: the inputs on_message is exercised with *)

\* a dict with the keys of S, each key holding the number val[k]
NumDict(S, val) == [k \in S |-> JNum(val[k])]

AccVal  == [x |-> 1, y |-> 2, z |-> 3]
GyroVal == [x |-> 4, y |-> 5, z |-> 6]
GpsVal  == [lat |-> 7, lon |-> 8]

Absent == [t |-> "absent"]       \* the key is not in the payload

\* values the payload may hold under a sub-object key: absent, null (not an
\* object), or an object with any subset of the component keys
SubInputs(val) == {Absent, JNull} \cup { JObj(NumDict(S, val)) : S \in SUBSET DOMAIN val }
FullSub(val)   == JObj(NumDict(DOMAIN val, val))

\* the top-level keys next to the sub-objects: none of them, or a producer
\* timestamp, a session and a received_at of the payload's own (values the
\* server clock never takes)
PayloadMeta ==
    [timestamp |-> JNum(901), session |-> JNum(7), received_at |-> JNum(902)]

\* gyro parts: absent, null, and objects with none, one, two or all components
GyroInputs ==
    {Absent, JNull} \cup
    { JObj(NumDict(S, GyroVal)) : S \in {{}, {"x"}, {"y", "z"}, {"x", "y", "z"}} }

\* merge of two dicts with disjoint keys
Merge(f, g) == [k \in DOMAIN f \cup DOMAIN g |-> IF k \in DOMAIN f THEN f[k] ELSE g[k]]
\* the dict {key: v}, or the empty dict when v is Absent
Field(key, v) == IF v = Absent THEN <<>> ELSE [k \in {key} |-> v]

ObjPayload(meta, acc, gyro, gpsv) ==
    [kind |-> "json",
     v |-> JObj(Merge(meta, Merge(Field("acc", acc), Merge(Field("gyro", gyro), Field("gps", gpsv)))))]

BadPayload    == [kind |-> "bad"]                      \* bytes json.loads rejects
NonObjPayload == [kind |-> "json", v |-> JNum(5)]      \* valid JSON, not an object

\* IMU payloads: every acc part without gyro, every gyro part with all of
\* acc, and one payload that lacks acc.z and carries no top-level keys
ImuPayloads ==
    { ObjPayload(PayloadMeta, a, Absent, Absent) : a \in SubInputs(AccVal) }
    \cup { ObjPayload(PayloadMeta, FullSub(AccVal), g, Absent) : g \in GyroInputs }
    \cup { ObjPayload(<<>>, JObj(NumDict({"x", "y"}, AccVal)), FullSub(GyroVal), Absent) }

GpsPayloads ==
    { ObjPayload(PayloadMeta, Absent, Absent, p) : p \in SubInputs(GpsVal) }

AnyTopicPayloads ==
    { BadPayload, NonObjPayload,
      ObjPayload(<<>>, FullSub(AccVal), FullSub(GyroVal), FullSub(GpsVal)) }

Msg(topic, retain, payload) == [topic |-> topic, retain |-> retain, payload |-> payload]

Messages ==
    { Msg(MQTT_TOPIC_IMU, r, p) : r \in {0, 1}, p \in ImuPayloads }
    \cup { Msg(MQTT_TOPIC_GPS, r, p) : r \in {0, 1}, p \in GpsPayloads }
    \cup { Msg(t, r, p) : t \in Topics, r \in {0, 1}, p \in AnyTopicPayloads }

NoMsg == Msg("", 0, BadPayload)

----------------------------------------------------------------------------
(* on_message, lines 107-147: the body run after the gate wait *)

\* payload[key][comp] for each comp in order; "" when all are there
RequiredLookup(d, key, comps) ==
    IF key \notin DOMAIN d THEN "KeyError"
    ELSE IF d[key].t # "obj" THEN "Exception"              \* TypeError
    ELSE IF \E c \in comps : c \notin DOMAIN d[key].f THEN "KeyError"
    ELSE ""

\* payload.get(key, {}).get(comp, 0.0) for the three components
OptionalLookup(d, key) ==
    IF key \in DOMAIN d /\ d[key].t # "obj" THEN "Exception"   \* AttributeError
    ELSE ""

GyroOf(d, c) ==
    IF "gyro" \in DOMAIN d THEN DictGet(d["gyro"].f, c, JNum(0)) ELSE JNum(0)

\* ImuDoc with received_at taken from the payload when the payload has one
ImuDoc_PayloadReceivedAt(d, received_at) ==
    [timestamp |-> DictGet(d, "timestamp", JNull),
     session   |-> DictGet(d, "session", JNull),
     ax |-> d["acc"].f["x"], ay |-> d["acc"].f["y"], az |-> d["acc"].f["z"],
     gx |-> GyroOf(d, "x"), gy |-> GyroOf(d, "y"), gz |-> GyroOf(d, "z"),
     received_at |-> IF "received_at" \in DOMAIN d THEN d["received_at"].n ELSE received_at]

\* the doc of lines 119-129
ImuDoc(d, received_at) ==
    [timestamp |-> DictGet(d, "timestamp", JNull),
     session   |-> DictGet(d, "session", JNull),
     ax |-> d["acc"].f["x"], ay |-> d["acc"].f["y"], az |-> d["acc"].f["z"],
     gx |-> GyroOf(d, "x"), gy |-> GyroOf(d, "y"), gz |-> GyroOf(d, "z"),
     received_at |-> received_at]

\* the doc of lines 134-140
GpsDoc(d, received_at) ==
    [timestamp |-> DictGet(d, "timestamp", JNull),
     session   |-> DictGet(d, "session", JNull),
     lat |-> d["gps"].f["lat"], lon |-> d["gps"].f["lon"],
     received_at |-> received_at]

\* Body with the KeyError handler printing nothing
Body_SilentKeyError(m, now, up, db) ==
    LET none(n) == [coll |-> "", doc |-> <<>>, printed |-> n] IN
    IF m.payload.kind = "bad" THEN none(1)
    ELSE IF db = "None" THEN none(1)
    ELSE IF m.topic \notin {MQTT_TOPIC_IMU, MQTT_TOPIC_GPS} THEN none(0)
    ELSE IF m.payload.v.t # "obj" THEN none(1)
    ELSE LET d == m.payload.v.f IN
         IF m.topic = MQTT_TOPIC_IMU
         THEN IF RequiredLookup(d, "acc", {"x", "y", "z"}) = "KeyError" THEN none(0)
              ELSE IF RequiredLookup(d, "acc", {"x", "y", "z"}) # "" THEN none(1)
              ELSE IF OptionalLookup(d, "gyro") # "" THEN none(1)
              ELSE IF ~up THEN none(1)
              ELSE [coll |-> "imu", doc |-> ImuDoc(d, now), printed |-> 1]
         ELSE IF RequiredLookup(d, "gps", {"lat", "lon"}) = "KeyError" THEN none(0)
              ELSE IF RequiredLookup(d, "gps", {"lat", "lon"}) # "" THEN none(1)
              ELSE IF ~up THEN none(1)
              ELSE [coll |-> "gps", doc |-> GpsDoc(d, now), printed |-> 1]

\* Body with a plain else in place of the test of the GPS topic
Body_ElseIsGps(m, now, up, db) ==
    LET none(n) == [coll |-> "", doc |-> <<>>, printed |-> n] IN
    IF m.payload.kind = "bad" THEN none(1)
    ELSE IF db = "None" THEN none(1)
    ELSE IF m.payload.v.t # "obj" THEN none(1)
    ELSE LET d == m.payload.v.f IN
         IF m.topic = MQTT_TOPIC_IMU
         THEN IF RequiredLookup(d, "acc", {"x", "y", "z"}) # "" THEN none(1)
              ELSE IF OptionalLookup(d, "gyro") # "" THEN none(1)
              ELSE IF ~up THEN none(1)
              ELSE [coll |-> "imu", doc |-> ImuDoc(d, now), printed |-> 1]
         ELSE IF RequiredLookup(d, "gps", {"lat", "lon"}) # "" THEN none(1)
              ELSE IF ~up THEN none(1)
              ELSE [coll |-> "gps", doc |-> GpsDoc(d, now), printed |-> 1]

\* Outcome of lines 107-147 for message m at instant now, with the store up or
\* down and the global mongo_db: which collection gets which doc (coll = "" for none) and the number
\* of lines printed.
Body(m, now, up, db) ==
    LET none(n) == [coll |-> "", doc |-> <<>>, printed |-> n] IN
    IF m.payload.kind = "bad" THEN none(1)                     \* json.loads raises
    ELSE IF db = "None" THEN none(1)                           \* lines 114-116
    ELSE IF m.topic \notin {MQTT_TOPIC_IMU, MQTT_TOPIC_GPS} THEN none(0)
    ELSE IF m.payload.v.t # "obj" THEN none(1)                 \* payload.get raises
    ELSE LET d == m.payload.v.f IN
         IF m.topic = MQTT_TOPIC_IMU
         THEN IF RequiredLookup(d, "acc", {"x", "y", "z"}) # "" THEN none(1)
              ELSE IF OptionalLookup(d, "gyro") # "" THEN none(1)
              ELSE IF ~up THEN none(1)                         \* insert_one raises
              ELSE [coll |-> "imu", doc |-> ImuDoc(d, now), printed |-> 1]
         ELSE IF RequiredLookup(d, "gps", {"lat", "lon"}) # "" THEN none(1)
              ELSE IF ~up THEN none(1)
              ELSE [coll |-> "gps", doc |-> GpsDoc(d, now), printed |-> 1]

----------------------------------------------------------------------------
(* threading.Event *)

\* mongo_ready.wait(timeout) when it returns: True iff the flag is set; it
\* returns False (timeout) only while the flag is unset.
EventWait(flag) == flag

----------------------------------------------------------------------------
(* Startup: module load (lines 57-60) and the __main__ block (395-416) *)

NoReq  == [endpoint |-> "", args |-> <<>>, at |-> 0]
NoResp == [status |-> 0, error |-> "", queried |-> FALSE, filter |-> <<>>, limit |-> 0,
           body |-> [kind |-> "none"]]

Init ==
    /\ main_pc = "load"
    /\ is_main \in BOOLEAN
    /\ mongo_up \in BOOLEAN
    /\ mongo_db = "None"
    /\ init_err = ""
    /\ mongo_ready = FALSE
    /\ indexes = {}
    /\ worker_pc = "not_started"
    /\ subs = {}
    /\ connack = <<>>
    /\ msg_pc = "idle"
    /\ cur = NoMsg
    /\ waited = "none"
    /\ logs = 0
    /\ imu = <<>>
    /\ gps = <<>>
    /\ clock = 1
    /\ req = NoReq
    /\ resp = NoResp

\* InitMongo without the exit: a failed init_mongo lets the module load go on
InitMongo_NoExit ==
    /\ main_pc = "load"
    /\ \/ /\ mongo_up
          /\ mongo_db' = "db"
          /\ init_err' = ""
       \/ \E e \in {"ConnectionFailure", "ServerSelectionTimeoutError", "Exception"},
             db \in {"None", "db"} :
            /\ e \in {"ConnectionFailure", "ServerSelectionTimeoutError"} => ~mongo_up
            /\ mongo_db' = db
            /\ init_err' = e
    /\ main_pc' = "loaded"
    /\ UNCHANGED <<is_main, mongo_up, mongo_ready, indexes>>
    /\ UNCHANGED <<workerVars, msgVars, storeVars, clock, apiVars>>

\* init_mongo() and the exit at lines 58-60.  The ping or the collection
\* listing may raise; the latter leaves mongo_db assigned, and the process
\* exits all the same.
InitMongo ==
    /\ main_pc = "load"
    /\ \/ /\ mongo_up
          /\ mongo_db' = "db"
          /\ init_err' = ""
          /\ main_pc' = "loaded"
       \/ \E e \in {"ConnectionFailure", "ServerSelectionTimeoutError", "Exception"},
             db \in {"None", "db"} :
            /\ e \in {"ConnectionFailure", "ServerSelectionTimeoutError"} => ~mongo_up
            /\ mongo_db' = db
            /\ init_err' = e
            /\ main_pc' = "exited"                     \* sys.exit(1)
    /\ UNCHANGED <<is_main, mongo_up, mongo_ready, indexes>>
    /\ UNCHANGED <<workerVars, msgVars, storeVars, clock, apiVars>>

\* The module was imported by a WSGI host: the __main__ block does not run
\* and the host serves the routes.
ImportedServe ==
    /\ main_pc = "loaded"
    /\ ~is_main
    /\ main_pc' = "serving"
    /\ UNCHANGED <<is_main, mongo_up, mongo_db, init_err, mongo_ready, indexes>>
    /\ UNCHANGED <<workerVars, msgVars, storeVars, clock, apiVars>>

\* ensure_indexes(): n of the two create_index calls succeed, in the order
\* imu, gps; an exception is printed and swallowed.
ensure_indexes ==
    /\ main_pc = "loaded"
    /\ is_main
    /\ \E n \in 0..2 :
         /\ n = 2 => mongo_up
         /\ indexes' = IF mongo_db = "None" THEN {}
                       ELSE CASE n = 0 -> {} [] n = 1 -> {"imu"} [] n = 2 -> {"imu", "gps"}
    /\ main_pc' = "indexed"
    /\ UNCHANGED <<is_main, mongo_up, mongo_db, init_err, mongo_ready>>
    /\ UNCHANGED <<workerVars, msgVars, storeVars, clock, apiVars>>

\* mongo_ready.set(), line 406
SetReady ==
    /\ main_pc = "indexed"
    /\ mongo_ready' = TRUE
    /\ main_pc' = "ready"
    /\ UNCHANGED <<is_main, mongo_up, mongo_db, init_err, indexes>>
    /\ UNCHANGED <<workerVars, msgVars, storeVars, clock, apiVars>>

\* mqtt_thread.start(), lines 410-411: start_mqtt runs up to its gate wait
StartThread ==
    /\ main_pc = "ready"
    /\ main_pc' = "thread_started"
    /\ worker_pc' = "waiting"
    /\ UNCHANGED <<is_main, mongo_up, mongo_db, init_err, mongo_ready, indexes>>
    /\ UNCHANGED <<subs, connack, msgVars, storeVars, clock, apiVars>>

\* AppRun clearing the gate as it starts to serve
AppRun_ClearsGate ==
    /\ main_pc = "thread_started"
    /\ main_pc' = "serving"
    /\ mongo_ready' = FALSE
    /\ UNCHANGED <<is_main, mongo_up, mongo_db, init_err, indexes>>
    /\ UNCHANGED <<workerVars, msgVars, storeVars, clock, apiVars>>

\* app.run(), line 416
AppRun ==
    /\ main_pc = "thread_started"
    /\ main_pc' = "serving"
    /\ UNCHANGED <<is_main, mongo_up, mongo_db, init_err, mongo_ready, indexes>>
    /\ UNCHANGED <<workerVars, msgVars, storeVars, clock, apiVars>>

----------------------------------------------------------------------------
(* Environment *)

\* the store becomes unreachable, or reachable again
MongoFlip ==
    /\ main_pc # "exited"
    /\ mongo_up' = ~mongo_up
    /\ UNCHANGED <<startupVars, workerVars, msgVars, storeVars, clock, apiVars>>

\* time passes
Tick ==
    /\ main_pc # "exited"
    /\ clock < MaxClock
    /\ clock' = clock + 1
    /\ UNCHANGED <<startupVars, mongo_up, workerVars, msgVars, storeVars, apiVars>>

----------------------------------------------------------------------------
(* The MQTT worker: start_mqtt (152-196), on_connect (89-95) *)

\* StartMqttWait going on to connect whatever the wait returned
StartMqttWait_IgnoreWait ==
    /\ worker_pc = "waiting"
    /\ worker_pc' = "connecting"
    /\ UNCHANGED <<startupVars, mongo_up, subs, connack, msgVars, storeVars, clock, apiVars>>

\* the pre-connect wait of line 157 returns
StartMqttWait ==
    /\ worker_pc = "waiting"
    /\ worker_pc' = IF EventWait(mongo_ready) THEN "connecting" ELSE "aborted"
    /\ UNCHANGED <<startupVars, mongo_up, subs, connack, msgVars, storeVars, clock, apiVars>>

\* lines 163-196: TLS setup, client.connect, loop_forever
StartMqttConnect ==
    /\ worker_pc = "connecting"
    /\ \E outcome \in {"tls_error", "connect_error", "ok"} :
         worker_pc' = IF outcome = "ok" THEN "loop" ELSE "ended"
    /\ UNCHANGED <<startupVars, mongo_up, subs, connack, msgVars, storeVars, clock, apiVars>>

\* lines 89-95: the broker's CONNACK for the one connect of line 190 arrives
\* with return code rc; connack keeps the code the callback was given
on_connect(rc) ==
    /\ worker_pc = "loop"
    /\ connack = <<>>
    /\ connack' = <<rc>>
    /\ subs' = IF rc = 0
               THEN subs \cup {<<MQTT_TOPIC_IMU, 1>>, <<MQTT_TOPIC_GPS, 1>>}
               ELSE subs
    /\ UNCHANGED <<startupVars, mongo_up, worker_pc, msgVars, storeVars, clock, apiVars>>

\* start_mqtt called by a program that imported the module (the __main__
\* block, and with it line 406, never runs there)
CallStartMqtt ==
    /\ main_pc = "serving"
    /\ ~is_main
    /\ worker_pc = "not_started"
    /\ worker_pc' = "waiting"
    /\ UNCHANGED <<startupVars, mongo_up, subs, connack, msgVars, storeVars, clock, apiVars>>

----------------------------------------------------------------------------
(* on_message (97-147) *)

\* OnMessageEnter without the retained check
OnMessageEnter_NoRetainCheck(m) ==
    /\ msg_pc # "waiting"
    /\ Len(imu) + Len(gps) < MaxDocs
    /\ cur' = m
    /\ waited' = "none"
    /\ logs' = 0
    /\ msg_pc' = "waiting"
    /\ UNCHANGED <<startupVars, mongo_up, workerVars, storeVars, clock, apiVars>>

\* lines 99-103: the retained check, then the call of mongo_ready.wait
OnMessageEnter(m) ==
    /\ msg_pc # "waiting"                       \* one message at a time
    /\ Len(imu) + Len(gps) < MaxDocs
    /\ cur' = m
    /\ waited' = "none"
    /\ IF m.retain = 1
       THEN /\ logs' = 1
            /\ msg_pc' = "done"
       ELSE /\ logs' = 0
            /\ msg_pc' = "waiting"
    /\ UNCHANGED <<startupVars, mongo_up, workerVars, storeVars, clock, apiVars>>

\* OnMessageWaitReturn with the result of the wait ignored
OnMessageWaitReturn_IgnoreWait ==
    /\ msg_pc = "waiting"
    /\ msg_pc' = "done"
    /\ LET b == Body(cur, clock, mongo_up, mongo_db) IN
         /\ waited' = IF EventWait(mongo_ready) THEN "true" ELSE "timeout"
         /\ logs' = logs + b.printed
         /\ imu' = IF b.coll = "imu" THEN Append(imu, b.doc) ELSE imu
         /\ gps' = IF b.coll = "gps" THEN Append(gps, b.doc) ELSE gps
    /\ UNCHANGED <<startupVars, mongo_up, workerVars, cur, clock, apiVars>>

\* OnMessageWaitReturn clearing the gate when the store does not answer
OnMessageWaitReturn_ClearOnFailure ==
    /\ msg_pc = "waiting"
    /\ msg_pc' = "done"
    /\ IF EventWait(mongo_ready)
       THEN LET b == Body(cur, clock, mongo_up, mongo_db) IN
            /\ waited' = "true"
            /\ logs' = logs + b.printed
            /\ imu' = IF b.coll = "imu" THEN Append(imu, b.doc) ELSE imu
            /\ gps' = IF b.coll = "gps" THEN Append(gps, b.doc) ELSE gps
            /\ mongo_ready' = mongo_up
       ELSE /\ waited' = "timeout"
            /\ logs' = logs + 1
            /\ mongo_ready' = mongo_ready
            /\ UNCHANGED storeVars
    /\ UNCHANGED <<main_pc, is_main, mongo_db, init_err, indexes>>
    /\ UNCHANGED <<mongo_up, workerVars, cur, clock, apiVars>>

\* OnMessageWaitReturn with a failure of the body escaping on_message and
\* ending the network loop
OnMessageWaitReturn_FaultEscapes ==
    /\ msg_pc = "waiting"
    /\ msg_pc' = "done"
    /\ IF EventWait(mongo_ready)
       THEN LET b == Body(cur, clock, mongo_up, mongo_db) IN
            /\ waited' = "true"
            /\ logs' = logs + b.printed
            /\ imu' = IF b.coll = "imu" THEN Append(imu, b.doc) ELSE imu
            /\ gps' = IF b.coll = "gps" THEN Append(gps, b.doc) ELSE gps
            /\ worker_pc' = IF b.coll = "" /\ b.printed = 1 /\ worker_pc = "loop"
                            THEN "ended" ELSE worker_pc
       ELSE /\ waited' = "timeout"
            /\ logs' = logs + 1
            /\ worker_pc' = worker_pc
            /\ UNCHANGED storeVars
    /\ UNCHANGED <<startupVars, mongo_up, subs, connack, cur, clock, apiVars>>

\* OnMessageWaitReturn waiting again after a timeout
OnMessageWaitReturn_RetryOnTimeout ==
    /\ msg_pc = "waiting"
    /\ IF EventWait(mongo_ready)
       THEN LET b == Body(cur, clock, mongo_up, mongo_db) IN
            /\ msg_pc' = "done"
            /\ waited' = "true"
            /\ logs' = logs + b.printed
            /\ imu' = IF b.coll = "imu" THEN Append(imu, b.doc) ELSE imu
            /\ gps' = IF b.coll = "gps" THEN Append(gps, b.doc) ELSE gps
       ELSE /\ msg_pc' = "waiting"
            /\ waited' = "timeout"
            /\ logs' = 1
            /\ UNCHANGED storeVars
    /\ UNCHANGED <<startupVars, mongo_up, workerVars, cur, clock, apiVars>>

\* lines 103-147: the wait returns; on True the body runs
OnMessageWaitReturn ==
    /\ msg_pc = "waiting"
    /\ msg_pc' = "done"
    /\ IF EventWait(mongo_ready)
       THEN LET b == Body(cur, clock, mongo_up, mongo_db) IN
            /\ waited' = "true"
            /\ logs' = logs + b.printed
            /\ imu' = IF b.coll = "imu" THEN Append(imu, b.doc) ELSE imu
            /\ gps' = IF b.coll = "gps" THEN Append(gps, b.doc) ELSE gps
       ELSE /\ waited' = "timeout"
            /\ logs' = logs + 1
            /\ UNCHANGED storeVars
    /\ UNCHANGED <<startupVars, mongo_up, workerVars, cur, clock, apiVars>>

\* the network loop delivers a message of a subscribed topic
MsgArrive ==
    /\ worker_pc = "loop"
    /\ \E m \in Messages :
         /\ \E s \in subs : s[1] = m.topic
         /\ OnMessageEnter(m)

\* on_message called by any other caller once the module is loaded
DirectCall ==
    /\ main_pc \notin {"load", "exited"}
    /\ \E m \in Messages : OnMessageEnter(m)

----------------------------------------------------------------------------
(* Parsing of request parameters.  A string is a sequence of characters. *)

DigitVal == ("0" :> 0) @@ ("1" :> 1) @@ ("2" :> 2) @@ ("3" :> 3) @@ ("4" :> 4) @@
            ("5" :> 5) @@ ("6" :> 6) @@ ("7" :> 7) @@ ("8" :> 8) @@ ("9" :> 9)
IsDigit(c) == c \in DOMAIN DigitVal

RECURSIVE LStrip(_)
LStrip(s) == IF s # <<>> /\ Head(s) = " " THEN LStrip(Tail(s)) ELSE s
RECURSIVE RStrip(_)
RStrip(s) == IF s # <<>> /\ s[Len(s)] = " " THEN RStrip(SubSeq(s, 1, Len(s) - 1)) ELSE s
\* str.strip()
Strip(s) == RStrip(LStrip(s))

\* a run of decimal digits, single underscores allowed between digits
IsDigitRun(s) ==
    /\ s # <<>>
    /\ IsDigit(s[1]) /\ IsDigit(s[Len(s)])
    /\ \A i \in 1..Len(s) :
         \/ IsDigit(s[i])
         \/ s[i] = "_" /\ IsDigit(s[i - 1]) /\ IsDigit(s[i + 1])

RECURSIVE DigitRunVal(_, _)
DigitRunVal(s, acc) ==
    IF s = <<>> THEN acc
    ELSE IF Head(s) = "_" THEN DigitRunVal(Tail(s), acc)
    ELSE DigitRunVal(Tail(s), 10 * acc + DigitVal[Head(s)])

RECURSIVE DigitCount(_)
DigitCount(s) ==
    IF s = <<>> THEN 0
    ELSE (IF Head(s) = "_" THEN 0 ELSE 1) + DigitCount(Tail(s))

RECURSIVE Pow10(_)
Pow10(k) == IF k = 0 THEN 1 ELSE 10 * Pow10(k - 1)

HasSign(t)   == t # <<>> /\ t[1] \in {"+", "-"}
Unsigned(t)  == IF HasSign(t) THEN Tail(t) ELSE t
SignOf(t)    == IF t # <<>> /\ t[1] = "-" THEN -1 ELSE 1

\* int(s) for a str s: ok = FALSE stands for ValueError
PyInt(s) ==
    LET t == Strip(s)
        u == Unsigned(t)
    IN  IF IsDigitRun(u)
        THEN [ok |-> TRUE, n |-> SignOf(t) * DigitRunVal(u, 0)]
        ELSE [ok |-> FALSE, n |-> 0]

\* position of the first "." of s, 0 if none
RECURSIVE DotAt(_, _)
DotAt(s, i) ==
    IF i > Len(s) THEN 0 ELSE IF s[i] = "." THEN i ELSE DotAt(s, i + 1)

\* float(s) for a str s in decimal notation without exponent, or one of the
\* lower-case words inf, infinity, nan.  A finite value is num/den.
\* kind = "error" stands for ValueError.
PyFloat(s) ==
    LET t   == Strip(s)
        u   == Unsigned(t)
        d   == DotAt(u, 1)
        ip  == IF d = 0 THEN u ELSE SubSeq(u, 1, d - 1)
        fp  == IF d = 0 THEN <<>> ELSE SubSeq(u, d + 1, Len(u))
        bad == [kind |-> "error", num |-> 0, den |-> 1]
    IN  IF u \in {<<"i", "n", "f">>, <<"i", "n", "f", "i", "n", "i", "t", "y">>}
        THEN [kind |-> "inf", num |-> 0, den |-> 1]
        ELSE IF u = <<"n", "a", "n">> THEN [kind |-> "nan", num |-> 0, den |-> 1]
        ELSE IF ip = <<>> /\ fp = <<>> THEN bad
        ELSE IF ip # <<>> /\ ~IsDigitRun(ip) THEN bad
        ELSE IF fp # <<>> /\ ~IsDigitRun(fp) THEN bad
        ELSE LET k == DigitCount(fp) IN
             [kind |-> "finite",
              num  |-> SignOf(t) * (DigitRunVal(ip, 0) * Pow10(k) + DigitRunVal(fp, 0)),
              den  |-> Pow10(k)]

\* An instant string is a sequence of lexical tokens: a date-time body
\* ("T1" is the UTC wall-clock text of instant 1), a UTC offset, the letter
\* "Z", or other text.
BodyInstant == ("T1" :> 1) @@ ("T2" :> 2) @@ ("T3" :> 3) @@ ("T4" :> 4)
Offsets     == {"+00:00"}

\* s.replace("Z", "+00:00")
ReplaceZ(s) == [i \in 1..Len(s) |-> IF s[i] = "Z" THEN "+00:00" ELSE s[i]]

\* datetime.fromisoformat(s): a body, optionally followed by one offset
FromIsoFormat(s) ==
    IF /\ Len(s) \in {1, 2}
       /\ s[1] \in DOMAIN BodyInstant
       /\ Len(s) = 2 => s[2] \in Offsets
    THEN [ok |-> TRUE, at |-> BodyInstant[s[1]]]
    ELSE [ok |-> FALSE, at |-> 0]

\* an instant as the fraction num/den of clock units
Instant(num, den) == [num |-> num, den |-> den]

----------------------------------------------------------------------------
(* _build_query (367-392) *)

\* line 369: int(args.get("limit", 2000)); ok = FALSE stands for ValueError
ParseLimit(args) ==
    IF "limit" \in DOMAIN args THEN PyInt(args["limit"]) ELSE [ok |-> TRUE, n |-> 2000]

\* SessionFilter with the empty string taken for a session value
SessionFilter_EmptyIsValue(args) ==
    IF "session" \in DOMAIN args /\ args["session"] \notin {<<"a", "l", "l">>}
    THEN LET i == PyInt(args["session"]) IN
         [k \in {"session"} |-> IF i.ok THEN JNum(i.n) ELSE JStr(args["session"])]
    ELSE <<>>

\* lines 371-376: the session entry of the query, or the empty dict
SessionFilter(args) ==
    IF "session" \in DOMAIN args /\ args["session"] \notin {<<>>, <<"a", "l", "l">>}
    THEN LET i == PyInt(args["session"]) IN
         [k \in {"session"} |-> IF i.ok THEN JNum(i.n) ELSE JStr(args["session"])]
    ELSE <<>>

\* TimeWindow with the explicit range tried first and minutes used only
\* when neither from_dt nor to_dt is given
TimeWindow_RangeFirst(args, now) ==
    LET failed(e) == [err |-> e, entry |-> <<>>]
        minutes == DictGet(args, "minutes", <<>>)
        from_dt == DictGet(args, "from_dt", <<>>)
        to_dt   == DictGet(args, "to_dt", <<>>)
    IN  IF minutes # <<>> /\ from_dt = <<>> /\ to_dt = <<>>
        THEN LET f == PyFloat(minutes) IN
             IF f.kind \in {"error", "nan"} THEN failed("ValueError")
             ELSE IF f.kind = "inf" THEN failed("OverflowError")
             ELSE [err |-> "",
                   entry |-> [k \in {"received_at"} |->
                                [b \in {"$gte"} |-> Instant(now * f.den - f.num, f.den)]]]
        ELSE LET lo == FromIsoFormat(ReplaceZ(from_dt))
                 hi == FromIsoFormat(ReplaceZ(to_dt))
                 dt_filter ==
                     Merge(IF from_dt # <<>> THEN [b \in {"$gte"} |-> Instant(lo.at, 1)] ELSE <<>>,
                           IF to_dt # <<>> THEN [b \in {"$lte"} |-> Instant(hi.at, 1)] ELSE <<>>)
             IN  IF from_dt # <<>> /\ ~lo.ok THEN failed("ValueError")
                 ELSE IF to_dt # <<>> /\ ~hi.ok THEN failed("ValueError")
                 ELSE [err |-> "",
                       entry |-> IF dt_filter # <<>>
                                 THEN [k \in {"received_at"} |-> dt_filter]
                                 ELSE <<>>]

\* lines 378-390: the received_at entry of the query, or the empty dict;
\* err names the exception raised, "" if none
TimeWindow(args, now) ==
    LET failed(e) == [err |-> e, entry |-> <<>>]
        minutes == DictGet(args, "minutes", <<>>)
        from_dt == DictGet(args, "from_dt", <<>>)
        to_dt   == DictGet(args, "to_dt", <<>>)
    IN  IF minutes # <<>>
        THEN LET f == PyFloat(minutes) IN
             IF f.kind \in {"error", "nan"} THEN failed("ValueError")
             ELSE IF f.kind = "inf" THEN failed("OverflowError")
             ELSE [err |-> "",
                   entry |-> [k \in {"received_at"} |->
                                [b \in {"$gte"} |-> Instant(now * f.den - f.num, f.den)]]]
        ELSE LET lo == FromIsoFormat(ReplaceZ(from_dt))
                 hi == FromIsoFormat(ReplaceZ(to_dt))
                 dt_filter ==
                     Merge(IF from_dt # <<>> THEN [b \in {"$gte"} |-> Instant(lo.at, 1)] ELSE <<>>,
                           IF to_dt # <<>> THEN [b \in {"$lte"} |-> Instant(hi.at, 1)] ELSE <<>>)
             IN  IF from_dt # <<>> /\ ~lo.ok THEN failed("ValueError")
                 ELSE IF to_dt # <<>> /\ ~hi.ok THEN failed("ValueError")
                 ELSE [err |-> "",
                       entry |-> IF dt_filter # <<>>
                                 THEN [k \in {"received_at"} |-> dt_filter]
                                 ELSE <<>>]

\* args is the dict of query-string parameters; now is datetime.now(utc).
\* err = "" when the function returns (query, limit), else the exception.
_build_query(args, now) ==
    LET limit == ParseLimit(args)
        w     == TimeWindow(args, now)
    IN  IF ~limit.ok THEN [err |-> "ValueError", query |-> <<>>, limit |-> 0]
        ELSE IF w.err # "" THEN [err |-> w.err, query |-> <<>>, limit |-> 0]
        ELSE [err |-> "", query |-> Merge(SessionFilter(args), w.entry), limit |-> limit.n]

----------------------------------------------------------------------------
(* The store's side of the queries: find / sort / limit, aggregate,
   count_documents, distinct, as pymongo and MongoDB answer them *)

\* a stored received_at t (whole clock units) against the instant b
AtOrAfter(t, b)  == t * b.den >= b.num
AtOrBefore(t, b) == t * b.den <= b.num

\* doc satisfies the query dict q: equality on session (same type, same
\* value), $gte / $lte on received_at
Matches(doc, q) ==
    /\ "session" \in DOMAIN q => doc.session = q["session"]
    /\ "received_at" \in DOMAIN q =>
         LET r == q["received_at"] IN
         /\ "$gte" \in DOMAIN r => AtOrAfter(doc.received_at, r["$gte"])
         /\ "$lte" \in DOMAIN r => AtOrBefore(doc.received_at, r["$lte"])

\* collection.find(q), in the collection's order
Find(coll, q) == SelectSeq(coll, LAMBDA d : Matches(d, q))

\* insert doc into the ascending sequence sorted, after its equals
RECURSIVE InsertAsc(_, _)
InsertAsc(sorted, doc) ==
    IF sorted = <<>> THEN <<doc>>
    ELSE IF doc.received_at < Head(sorted).received_at THEN <<doc>> \o sorted
    ELSE <<Head(sorted)>> \o InsertAsc(Tail(sorted), doc)

\* cursor.sort("received_at", 1)
RECURSIVE SortAsc(_)
SortAsc(docs) ==
    IF docs = <<>> THEN <<>>
    ELSE InsertAsc(SortAsc(SubSeq(docs, 1, Len(docs) - 1)), docs[Len(docs)])

Abs(n) == IF n < 0 THEN -n ELSE n

\* cursor.limit(n): 0 is no limit; a negative n is sent as limit |n| with
\* singleBatch
Limit(docs, n) ==
    IF n = 0 \/ Abs(n) >= Len(docs) THEN docs ELSE SubSeq(docs, 1, Abs(n))

\* the projection of the find calls: the listed fields the doc has
Project(doc, fields) == [k \in DOMAIN doc \cap fields |-> doc[k]]

ImuFields == {"received_at", "ax", "ay", "az", "gx", "gy", "gz", "session", "timestamp"}
GpsFields == {"received_at", "lat", "lon", "session", "timestamp"}

\* datetime.isoformat() of the naive datetime pymongo returns: the body text
\* of the instant, without an offset
IsoFormat(t) == << CHOOSE b \in DOMAIN BodyInstant : BodyInstant[b] = t >>

\* d["received_at"] = d["received_at"].isoformat()
WithIsoReceivedAt(doc) ==
    [k \in DOMAIN doc |-> IF k = "received_at" THEN IsoFormat(doc[k]) ELSE doc[k]]

\* the numbers a field holds over docs; $min, $max and $avg skip the rest
NumbersOf(docs, field) ==
    { docs[i][field].n : i \in { j \in 1..Len(docs) : docs[j][field].t = "num" } }

MinOf(S) == IF S = {} THEN JNull ELSE JNum(CHOOSE x \in S : \A y \in S : x <= y)
MaxOf(S) == IF S = {} THEN JNull ELSE JNum(CHOOSE x \in S : \A y \in S : x >= y)

RECURSIVE SumOf(_, _)
SumOf(docs, field) ==
    IF docs = <<>> THEN 0
    ELSE (IF Head(docs)[field].t = "num" THEN Head(docs)[field].n ELSE 0)
         + SumOf(Tail(docs), field)

\* $avg: the sum over the number of numeric values, as a fraction
AvgOf(docs, field) ==
    LET n == Cardinality({ j \in 1..Len(docs) : docs[j][field].t = "num" }) IN
    IF n = 0 THEN JNull ELSE [t |-> "avg", sum |-> SumOf(docs, field), n |-> n]

Channels == {"ax", "ay", "az", "gx", "gy", "gz"}

\* the one row of the $group stage with _id None, after pop("_id")
StatsRow(docs) ==
    [count |-> Len(docs),
     min |-> [c \in Channels |-> MinOf(NumbersOf(docs, c))],
     max |-> [c \in Channels |-> MaxOf(NumbersOf(docs, c))],
     avg |-> [c \in Channels |-> AvgOf(docs, c)]]

\* collection.distinct("session")
Distinct(coll) == { coll[i].session : i \in 1..Len(coll) }

----------------------------------------------------------------------------
(* Response bodies *)

ListBody(items) == [kind |-> "list", items |-> items]
ObjectBody(obj) == [kind |-> "object", obj |-> obj]
NullBody        == [kind |-> "null"]
ErrorBody       == [kind |-> "error"]          \* {"error": <resp.error>}

\* Result with the aggregate's row returned whether or not a record matched
Result_AlwaysRow(endpoint, query, limit, i, g) ==
    IF endpoint = "/api/imu"
    THEN LET docs == Limit(SortAsc(Find(i, query)), limit) IN
         ListBody([k \in 1..Len(docs) |-> WithIsoReceivedAt(Project(docs[k], ImuFields))])
    ELSE IF endpoint = "/api/gps"
    THEN LET docs == Limit(SortAsc(Find(g, query)), limit) IN
         ListBody([k \in 1..Len(docs) |-> WithIsoReceivedAt(Project(docs[k], GpsFields))])
    ELSE IF endpoint = "/api/imu/stats"
    THEN ObjectBody(StatsRow(Find(i, query)))
    ELSE ObjectBody([imu_count |-> Len(Find(i, query)), gps_count |-> Len(Find(g, query))])

\* the body of a filtered endpoint whose store calls succeeded
Result(endpoint, query, limit, i, g) ==
    IF endpoint = "/api/imu"
    THEN LET docs == Limit(SortAsc(Find(i, query)), limit) IN
         ListBody([k \in 1..Len(docs) |-> WithIsoReceivedAt(Project(docs[k], ImuFields))])
    ELSE IF endpoint = "/api/gps"
    THEN LET docs == Limit(SortAsc(Find(g, query)), limit) IN
         ListBody([k \in 1..Len(docs) |-> WithIsoReceivedAt(Project(docs[k], GpsFields))])
    ELSE IF endpoint = "/api/imu/stats"
    THEN LET result == Find(i, query) IN
         ObjectBody(IF result # <<>> THEN StatsRow(result) ELSE <<>>)
    ELSE ObjectBody([imu_count |-> Len(Find(i, query)), gps_count |-> Len(Find(g, query))])

----------------------------------------------------------------------------
(* The filtered query endpoints: get_imu (248-264), imu_stats (266-291),
   get_gps (294-310), summary (326-338) *)

\* What a filtered endpoint answers: the not-connected check, then
\* _build_query inside the try, then the store call; any exception becomes
\* a 500 with {"error": ...}.  queried: the store was called.
Respond(args, now, db, up) ==
    LET q == _build_query(args, now) IN
    IF db = "None"
    THEN [status |-> 500, error |-> "MongoDB not connected", queried |-> FALSE,
          filter |-> <<>>, limit |-> 0]
    ELSE IF q.err # ""
    THEN [status |-> 500, error |-> q.err, queried |-> FALSE,
          filter |-> <<>>, limit |-> 0]
    ELSE IF ~up
    THEN [status |-> 500, error |-> "PyMongoError", queried |-> TRUE,
          filter |-> q.query, limit |-> q.limit]
    ELSE [status |-> 200, error |-> "", queried |-> TRUE,
          filter |-> q.query, limit |-> q.limit]

\* One request at a time is followed from its arrival to the delivery of its
\* response.
Serve(endpoint, args) ==
    /\ main_pc = "serving"
    /\ req = NoReq
    /\ req' = [endpoint |-> endpoint, args |-> args, at |-> clock]
    /\ resp' = LET r == Respond(args, clock, mongo_db, mongo_up) IN
               r @@ [body |-> IF r.status = 200
                              THEN Result(endpoint, r.filter, r.limit, imu, gps)
                              ELSE ErrorBody]
    /\ UNCHANGED <<startupVars, mongo_up, workerVars, msgVars, storeVars, clock>>

get_imu(args)   == Serve("/api/imu", args)
imu_stats(args) == Serve("/api/imu/stats", args)
get_gps(args)   == Serve("/api/gps", args)
summary(args)   == Serve("/api/summary", args)

\* the response leaves the server; the next request can be taken
ReturnResponse ==
    /\ req # NoReq
    /\ req' = NoReq
    /\ resp' = NoResp
    /\ UNCHANGED <<startupVars, mongo_up, workerVars, msgVars, storeVars, clock>>

FilteredEndpoints == {"/api/imu", "/api/imu/stats", "/api/gps", "/api/summary"}

----------------------------------------------------------------------------
(* The endpoints that build no query: sessions (234-246), gps_latest
   (312-323), available_days (341-364) *)

Failure(error, queried) ==
    [status |-> 500, error |-> error, queried |-> queried, filter |-> <<>>, limit |-> 0,
     body |-> ErrorBody]

Success(body) ==
    [status |-> 200, error |-> "", queried |-> TRUE, filter |-> <<>>, limit |-> 0,
     body |-> body]

\* the not-connected check, then the store calls inside the try; answer is
\* what the handler returns when no call raises
Guarded(db, up, answer) ==
    IF db = "None" THEN Failure("MongoDB not connected", FALSE)
    ELSE IF ~up THEN Failure("PyMongoError", TRUE)
    ELSE answer

Answer(endpoint, args, answer) ==
    /\ main_pc = "serving"
    /\ req = NoReq
    /\ req' = [endpoint |-> endpoint, args |-> args, at |-> clock]
    /\ resp' = Guarded(mongo_db, mongo_up, answer)
    /\ UNCHANGED <<startupVars, mongo_up, workerVars, msgVars, storeVars, clock>>

\* code points of the characters session texts are made of
CharCode == ("7" :> 55) @@ ("a" :> 97) @@ ("b" :> 98)

\* Python's < on two str
RECURSIVE StrLess(_, _)
StrLess(a, b) ==
    IF b = <<>> THEN FALSE
    ELSE IF a = <<>> THEN TRUE
    ELSE IF Head(a) # Head(b) THEN CharCode[Head(a)] < CharCode[Head(b)]
    ELSE StrLess(Tail(a), Tail(b))

\* Python's < on two session values of one kind
PyLess(v, w) ==
    IF v.t = "num" THEN v.n < w.n ELSE StrLess(v.s, w.s)

\* sorted() can order S: no comparison is made on fewer than two values;
\* int with int and str with str compare; None and mixed kinds raise
\* TypeError
Sortable(S) ==
    \/ Cardinality(S) <= 1
    \/ \A v \in S : v.t = "num"
    \/ \A v \in S : v.t = "str"

\* sorted(S, reverse=True) of a set sorted() can order
RECURSIVE SortedDesc(_)
SortedDesc(S) ==
    IF S = {} THEN <<>>
    ELSE LET top == CHOOSE v \in S : \A w \in S \ {v} : PyLess(w, v)
         IN  <<top>> \o SortedDesc(S \ {top})

sessions(args) ==
    LET all_s == Distinct(imu) \cup Distinct(gps) IN
    Answer("/api/sessions", args,
           IF Sortable(all_s) THEN Success(ListBody(SortedDesc(all_s)))
           ELSE Failure("TypeError", TRUE))

\* str(doc["_id"]) of the k-th document inserted into its collection
ObjectIdStr(k) == [oid |-> k]

\* serialize (203-207) applied to the k-th document of its collection
serialize(doc, k) ==
    WithIsoReceivedAt([f \in DOMAIN doc \cup {"_id"} |->
                         IF f = "_id" THEN ObjectIdStr(k) ELSE doc[f]])

\* positions find_one(sort=[("received_at", -1)]) may return: the order
\* among records of equal received_at is the store's choice
LatestOf(coll) ==
    { k \in 1..Len(coll) : \A j \in 1..Len(coll) : coll[j].received_at <= coll[k].received_at }

\* gps_latest passing the request's filter to find_one
gps_latest_Filtered(args) ==
    LET q     == _build_query(args, clock)
        found == { k \in 1..Len(gps) :
                     /\ Matches(gps[k], q.query)
                     /\ \A j \in 1..Len(gps) :
                          Matches(gps[j], q.query) => gps[j].received_at <= gps[k].received_at }
    IN  \/ /\ found = {}
           /\ Answer("/api/gps/latest", args, Success(NullBody))
        \/ \E k \in found :
             Answer("/api/gps/latest", args, Success(ObjectBody(serialize(gps[k], k))))

gps_latest(args) ==
    \/ /\ gps = <<>>
       /\ Answer("/api/gps/latest", args, Success(NullBody))
    \/ \E k \in LatestOf(gps) :
         Answer("/api/gps/latest", args, Success(ObjectBody(serialize(gps[k], k))))

\* the calendar day ($year, $month, $dayOfMonth) of instant t: two clock
\* units make a day
DayOf(t) == (t + 1) \div 2

\* the %04d-%02d-%02d text of a day
DayText(d) == [ymd |-> d]

DaysLimit == 90

\* the $group / $sort -1 / $limit pipeline over one collection: its newest
\* DaysLimit days
NewestDays(coll) ==
    LET days == { DayOf(coll[k].received_at) : k \in 1..Len(coll) } IN
    { d \in days : Cardinality({ e \in days : e > d }) < DaysLimit }

\* the days of S, newest first
RECURSIVE DaysDesc(_)
DaysDesc(S) ==
    IF S = {} THEN <<>>
    ELSE LET top == CHOOSE d \in S : \A e \in S : e <= d
         IN  <<DayText(top)>> \o DaysDesc(S \ {top})

\* available_days letting a failure of the store calls escape the handler:
\* the framework answers with its own error page
available_days_NoCatch(args) ==
    /\ main_pc = "serving"
    /\ req = NoReq
    /\ req' = [endpoint |-> "/api/days", args |-> args, at |-> clock]
    /\ resp' = IF mongo_db = "None" THEN Failure("MongoDB not connected", FALSE)
               ELSE IF ~mongo_up
               THEN [status |-> 500, error |-> "", queried |-> TRUE, filter |-> <<>>,
                     limit |-> 0, body |-> [kind |-> "html"]]
               ELSE Success(ListBody(DaysDesc(NewestDays(imu) \cup NewestDays(gps))))
    /\ UNCHANGED <<startupVars, mongo_up, workerVars, msgVars, storeVars, clock>>

available_days(args) ==
    Answer("/api/days", args,
           Success(ListBody(DaysDesc(NewestDays(imu) \cup NewestDays(gps)))))

QueryEndpoints == FilteredEndpoints \cup {"/api/sessions", "/api/gps/latest", "/api/days"}

----------------------------------------------------------------------------
(* Request parameters the endpoints are exercised with *)

NoParam == <<"(absent)">>
\* the dict {key: v}, or the empty dict when the parameter is not sent
Param(key, v) == IF v = NoParam THEN <<>> ELSE [k \in {key} |-> v]

LimitInputs   == { NoParam, <<"1">>, <<"x">> }
SessionInputs == { NoParam, <<>>, <<"a", "l", "l">>, <<"7">>, <<"-", "7">>,
                   <<" ", "7">>, <<"1", "_", "0">>, <<"7", "a">>, <<"a", "b", "c">>,
                   <<"A", "L", "L">> }
MinutesInputs == { NoParam, <<>>, <<"0">>, <<"1">>, <<"0", ".", "5">>, <<"-", "1">>,
                   <<"x">>, <<"n", "a", "n">>, <<"i", "n", "f">> }
FromInputs    == { NoParam, <<>>, <<"T1", "Z">>, <<"T2", "+00:00">>, <<"T1">>,
                   <<"junk">>, <<"T1", "Z", "Z">> }
ToInputs      == { NoParam, <<"T3", "Z">>, <<"junk">> }

Args(l, s, m, f, t) ==
    Merge(Param("limit", l), Merge(Param("session", s), Merge(Param("minutes", m),
        Merge(Param("from_dt", f), Param("to_dt", t)))))

\* every session value under several time windows and limits; every minutes
\* value with and without from/to; every from/to pair without minutes and
\* with an empty minutes; every limit value
\* the parameter sets the queries over a filled store are exercised with
QueryArgs ==
    { Args(NoParam, sv, NoParam, NoParam, NoParam) : sv \in {NoParam, <<"7">>, <<"a">>} }
    \cup { Args(NoParam, NoParam, m, NoParam, NoParam) : m \in {<<"0">>, <<"1">>} }
    \cup { Args(NoParam, NoParam, NoParam, <<"T2", "Z">>, NoParam),
           Args(NoParam, NoParam, NoParam, NoParam, <<"T1", "Z">>),
           Args(NoParam, NoParam, NoParam, <<"junk">>, NoParam) }
    \cup { Args(l, NoParam, NoParam, NoParam, NoParam) :
             l \in {<<"1">>, <<"2">>, <<"0">>, <<"-", "1">>, <<"x">>} }
    \cup { Args(<<"1">>, <<"7">>, NoParam, NoParam, NoParam) }

\* the parameter sets sent to the endpoints that read none
IgnoredArgs ==
    { Args(NoParam, NoParam, NoParam, NoParam, NoParam),
      Args(<<"1">>, <<"7">>, NoParam, NoParam, NoParam),
      Args(NoParam, NoParam, <<"0">>, NoParam, NoParam),
      Args(NoParam, NoParam, NoParam, <<"junk">>, <<"T1", "Z">>) }

\* payloads whose records earlier runs left in the store
StoredMeta(sv) == Merge([k \in {"timestamp"} |-> JNum(901)], Field("session", sv))

StoredImuPayloads ==
    { Merge(StoredMeta(sv), Field("acc", FullSub(AccVal))) :
        sv \in {JNum(7), JNum(8), JStr(<<"a">>)} }
    \cup { Merge(StoredMeta(JNum(7)), Field("acc", FullSub([AccVal EXCEPT !["x"] = 9]))) }

StoredGpsPayloads ==
    { Merge(StoredMeta(sv), Field("gps", FullSub(GpsVal))) : sv \in {JNum(7), Absent} }

StoredImu == { ImuDoc(d, t) : d \in StoredImuPayloads, t \in 1..MaxClock }
StoredGps == { GpsDoc(d, t) : d \in StoredGpsPayloads, t \in 1..MaxClock }

\* the collections of n documents on_message can have built: received_at
\* never decreases in insertion order
Collections(docs, n) ==
    { c \in [1..n -> docs] : \A k \in 1..(n - 1) : c[k].received_at <= c[k + 1].received_at }

ReqArgs ==
    { Args(l, s, m, f, NoParam) :
        l \in {NoParam, <<"1">>}, s \in SessionInputs,
        m \in {NoParam, <<"1">>}, f \in {NoParam, <<"T1", "Z">>} }
    \cup { Args(NoParam, NoParam, m, f, t) :
        m \in MinutesInputs, f \in {NoParam, <<"T1", "Z">>, <<"junk">>},
        t \in {NoParam, <<"T3", "Z">>} }
    \cup { Args(NoParam, NoParam, m, f, t) :
        m \in {NoParam, <<>>}, f \in FromInputs, t \in ToInputs }
    \cup { Args(l, <<"7">>, NoParam, f, NoParam) :
        l \in LimitInputs, f \in {NoParam, <<"junk">>} }

----------------------------------------------------------------------------
(* Specifications *)

Startup ==
    \/ InitMongo
    \/ ImportedServe
    \/ ensure_indexes
    \/ SetReady
    \/ StartThread
    \/ AppRun

Environment ==
    \/ MongoFlip
    \/ Tick

Worker ==
    \/ StartMqttWait
    \/ StartMqttConnect
    \/ \E rc \in 0..5 : on_connect(rc)

Ingest ==
    \/ MsgArrive
    \/ OnMessageWaitReturn

Api ==
    \/ \E args \in ReqArgs :
          \/ get_imu(args)
          \/ imu_stats(args)
          \/ get_gps(args)
          \/ summary(args)
    \/ ReturnResponse

Unfiltered ==
    \E args \in IgnoredArgs : sessions(args) \/ gps_latest(args) \/ available_days(args)

\* the whole program
Next == Startup \/ Environment \/ Worker \/ Ingest \/ Api \/ Unfiltered

Spec == Init /\ [][Next]_vars

\* the ingestion side: startup, worker and message handling
IngestNext == Startup \/ Environment \/ Worker \/ Ingest

IngestSpec == Init /\ [][IngestNext]_vars

\* on_message as a unit that any caller may invoke in any gate state, at any
\* point of the startup up to the worker's own gate wait
HandlerNext ==
    \/ InitMongo
    \/ ImportedServe
    \/ ensure_indexes
    \/ SetReady
    \/ StartThread
    \/ StartMqttWait
    \/ Environment
    \/ DirectCall
    \/ OnMessageWaitReturn

HandlerSpec == Init /\ [][HandlerNext]_vars

\* the query side: startup and the request handlers
ApiNext == Startup \/ Environment \/ Api

ApiSpec == Init /\ [][ApiNext]_vars

\* The queries over a filled store: the module was imported by a WSGI host
\* (lines 57-60 ran, the __main__ block did not) on a store that holds the
\* records of earlier runs.
QueryInit ==
    /\ main_pc = "serving"
    /\ is_main = FALSE
    /\ mongo_up \in BOOLEAN
    /\ mongo_db = "db"
    /\ init_err = ""
    /\ mongo_ready = FALSE
    /\ indexes = {}
    /\ worker_pc = "not_started"
    /\ subs = {}
    /\ connack = <<>>
    /\ msg_pc = "idle"
    /\ cur = NoMsg
    /\ waited = "none"
    /\ logs = 0
    /\ \E n \in 0..MaxDocs, k \in 0..MaxDocs :
         /\ n + k <= MaxDocs
         /\ imu \in Collections(StoredImu, n)
         /\ gps \in Collections(StoredGps, k)
    /\ clock = MaxClock
    /\ req = NoReq
    /\ resp = NoResp

QueryNext ==
    \/ MongoFlip
    \/ \E args \in QueryArgs :
         get_imu(args) \/ imu_stats(args) \/ get_gps(args) \/ summary(args)
    \/ Unfiltered
    \/ ReturnResponse

QuerySpec == QueryInit /\ [][QueryNext]_vars

\* the worker alone: started by the __main__ block or by an importing program
WorkerNext == Startup \/ Environment \/ Worker \/ CallStartMqtt

WorkerSpec == Init /\ [][WorkerNext]_vars

----------------------------------------------------------------------------
(* Properties *)

\* a handling of cur ends in this step with the body run or the wait timed out
WaitReturns == msg_pc = "waiting" /\ msg_pc' = "done"

IsJson(m)   == m.payload.kind = "json"
IsObject(m) == IsJson(m) /\ m.payload.v.t = "obj"

\* the payload has key, holding an object that has all of comps
HasAll(m, key, comps) ==
    /\ IsObject(m)
    /\ key \in DOMAIN m.payload.v.f
    /\ m.payload.v.f[key].t = "obj"
    /\ comps \subseteq DOMAIN m.payload.v.f[key].f

\* C1: no record is inserted while the readiness gate is unset; every step
\* that changes a collection is the return of a gate wait of on_message that
\* returned true, taken with the gate set.
C1_InsertOnlyAfterGate ==
    [][ /\ (imu' # imu \/ gps' # gps) =>
             (mongo_ready /\ WaitReturns /\ waited' = "true")
        /\ ~mongo_ready' => (imu' = <<>> /\ gps' = <<>>) ]_vars

\* a message that arrived was persisted after its wait returned true
C1_Witness ==
    /\ Len(imu) + Len(gps) > 0
    /\ msg_pc = "done" /\ waited = "true"
    /\ main_pc = "ready"

\* C2: a retained message is discarded at once, whatever its topic and
\* payload and whatever the gate state: the step that takes it leaves both
\* collections as they were, waits on nothing and ends the handling.
C2_RetainedNeverPersisted ==
    [][ cur'.retain = 1 =>
          /\ imu' = imu /\ gps' = gps
          /\ msg_pc' = "done"
          /\ waited' = "none" ]_vars

\* a retained IMU message with a complete payload was handled with the gate
\* set and the store up
C2_Witness ==
    /\ msg_pc = "done"
    /\ cur.retain = 1
    /\ cur.topic = MQTT_TOPIC_IMU
    /\ HasAll(cur, "acc", {"x", "y", "z"})
    /\ mongo_ready /\ mongo_up
    /\ imu = <<>>

\* the gyro part is an object or is absent
GyroObjectOrAbsent(m) ==
    "gyro" \in DOMAIN m.payload.v.f => m.payload.v.f["gyro"].t = "obj"

\* the gyro component c as the record must hold it
ExpectedGyro(m, c) ==
    IF "gyro" \in DOMAIN m.payload.v.f /\ c \in DOMAIN m.payload.v.f["gyro"].f
    THEN m.payload.v.f["gyro"].f[c]
    ELSE JNum(0)

\* C3: a non-retained IMU message with acc.x, acc.y, acc.z present, handled
\* with the gate set and the store accepting the insert, adds exactly one
\* record to imu: received_at is the server clock, ax/ay/az are the
\* payload's, each gyro component absent from the payload is 0.0.
C3_ValidImuPersistedOnce ==
    [][ ( /\ WaitReturns
          /\ mongo_ready /\ mongo_up
          /\ cur.topic = MQTT_TOPIC_IMU
          /\ HasAll(cur, "acc", {"x", "y", "z"})
          /\ GyroObjectOrAbsent(cur) )
        => /\ Len(imu') = Len(imu) + 1
           /\ SubSeq(imu', 1, Len(imu)) = imu
           /\ gps' = gps
           /\ LET doc == imu'[Len(imu')]
                  acc == cur.payload.v.f["acc"].f
              IN  /\ doc.received_at = clock
                  /\ doc.ax = acc["x"] /\ doc.ay = acc["y"] /\ doc.az = acc["z"]
                  /\ doc.gx = ExpectedGyro(cur, "x")
                  /\ doc.gy = ExpectedGyro(cur, "y")
                  /\ doc.gz = ExpectedGyro(cur, "z") ]_vars

\* an IMU message with only gyro.x and with a received_at and a timestamp of
\* its own was stored as the second record
C3_Witness ==
    /\ msg_pc = "done"
    /\ cur.retain = 0
    /\ cur.topic = MQTT_TOPIC_IMU
    /\ HasAll(cur, "acc", {"x", "y", "z"})
    /\ HasAll(cur, "gyro", {"x"})
    /\ "z" \notin DOMAIN cur.payload.v.f["gyro"].f
    /\ "received_at" \in DOMAIN cur.payload.v.f
    /\ Len(imu) = 2
    /\ imu[2].gx = JNum(4) /\ imu[2].gz = JNum(0)
    /\ imu[2].received_at = 2

\* the payload of m lacks a field its topic requires
LacksRequired(m) ==
    /\ IsObject(m)
    /\ \/ m.topic = MQTT_TOPIC_IMU /\ ~HasAll(m, "acc", {"x", "y", "z"})
       \/ m.topic = MQTT_TOPIC_GPS /\ ~HasAll(m, "gps", {"lat", "lon"})

\* C4: a non-retained message whose payload lacks a required field is
\* dropped whole: its handling leaves both collections unchanged and prints
\* exactly one line.
C4_MissingFieldDropped ==
    [][ (WaitReturns /\ LacksRequired(cur)) =>
          /\ imu' = imu /\ gps' = gps
          /\ logs = 0 /\ logs' = 1 ]_vars

\* an IMU message lacking only acc.z was handled with the gate set and the
\* store up, after a record had been stored
C4_Witness ==
    /\ msg_pc = "done" /\ waited = "true"
    /\ cur.topic = MQTT_TOPIC_IMU
    /\ HasAll(cur, "acc", {"x", "y"})
    /\ LacksRequired(cur)
    /\ mongo_up
    /\ logs = 1
    /\ Len(imu) = 1

\* C5: the gate is never cleared, and once it is set every gate wait that
\* returns, in on_message or in start_mqtt, returns true.
C5_GateWriteOnce ==
    [][ /\ mongo_ready => mongo_ready'
        /\ (mongo_ready /\ WaitReturns) => waited' = "true"
        /\ (mongo_ready /\ worker_pc = "waiting" /\ worker_pc' # "waiting")
              => worker_pc' = "connecting" ]_vars

\* both waits have returned true after the set
C5_Witness ==
    /\ mongo_ready
    /\ msg_pc = "done" /\ waited = "true"
    /\ worker_pc = "connecting"

\* C6: whenever the gate is set, the store was reached and both received_at
\* indexes exist.
C6_GateImpliesIndexed ==
    mongo_ready => (mongo_db = "db" /\ indexes = {"imu", "gps"})

\* C7: after a failed init_mongo the process has exited: the gate is unset,
\* the worker was not started and no request was taken.
C7_FailedInitHalts ==
    init_err # "" =>
        /\ main_pc = "exited"
        /\ ~mongo_ready
        /\ worker_pc = "not_started"
        /\ req = NoReq /\ resp = NoResp

\* init_mongo failed after mongo_db was assigned
C7_Witness ==
    /\ main_pc = "exited"
    /\ init_err = "Exception"
    /\ mongo_db = "db"

\* the request in flight got past _build_query: the store was called
QueryBuilt == req # NoReq /\ resp.queried

\* received_at >= at - minutes, and nothing else
RollingBound(args, at) ==
    LET f == PyFloat(args["minutes"]) IN
    [b \in {"$gte"} |-> Instant(at * f.den - f.num, f.den)]

\* C8 as stated: whenever a minutes parameter is present, the filter's
\* received_at predicate is the rolling lower bound.
C8_MinutesPresentIsRolling ==
    (QueryBuilt /\ "minutes" \in DOMAIN req.args) =>
        /\ "received_at" \in DOMAIN resp.filter
        /\ resp.filter["received_at"] = RollingBound(req.args, req.at)

\* C8 amended: when minutes is present and not empty, the filter's
\* received_at predicate is exactly the rolling lower bound at - minutes,
\* whatever from_dt/to_dt are; when minutes is absent or empty, the
\* predicate has the bounds of the from_dt/to_dt that are given and not
\* empty, and there is none when neither is.
C8_NonEmptyMinutesIsRolling ==
    QueryBuilt =>
        IF "minutes" \in DOMAIN req.args /\ req.args["minutes"] # <<>>
        THEN /\ "received_at" \in DOMAIN resp.filter
             /\ resp.filter["received_at"] = RollingBound(req.args, req.at)
        ELSE LET bounds ==
                    {b \in {"$gte"} : DictGet(req.args, "from_dt", <<>>) # <<>>}
                    \cup {b \in {"$lte"} : DictGet(req.args, "to_dt", <<>>) # <<>>}
             IN  IF bounds = {}
                 THEN "received_at" \notin DOMAIN resp.filter
                 ELSE /\ "received_at" \in DOMAIN resp.filter
                      /\ DOMAIN resp.filter["received_at"] = bounds

\* a request with minutes=1 and a from_dt at instant 2 was answered with the
\* bound 2 - 1
C8_Witness ==
    /\ req # NoReq /\ resp.status = 200
    /\ req.at = 2
    /\ "minutes" \in DOMAIN req.args /\ req.args["minutes"] = <<"1">>
    /\ "from_dt" \in DOMAIN req.args
    /\ resp.filter["received_at"] = [b \in {"$gte"} |-> Instant(1, 1)]

\* the session entry of a filter, the empty dict if it has none
SessionEntry(filter) ==
    IF "session" \in DOMAIN filter THEN [k \in {"session"} |-> filter["session"]] ELSE <<>>

\* C9: the session predicate depends on the session parameter alone: none
\* when it is absent, empty or "all"; numeric equality on the parsed integer
\* when it parses as an integer; string equality on the raw value otherwise.
C9_SessionPredicate ==
    QueryBuilt =>
        LET a == req.args
            e == SessionEntry(resp.filter)
        IN  /\ "session" \notin DOMAIN a => e = <<>>
            /\ "session" \in DOMAIN a =>
                 /\ a["session"] \in {<<>>, <<"a", "l", "l">>} => e = <<>>
                 /\ a["session"] \notin {<<>>, <<"a", "l", "l">>} =>
                      /\ e # <<>>
                      /\ PyInt(a["session"]).ok => e["session"] = JNum(PyInt(a["session"]).n)
                      /\ ~PyInt(a["session"]).ok => e["session"] = JStr(a["session"])
                 /\ a["session"] = <<"7">> => e["session"] = JNum(7)
                 /\ a["session"] = <<"a", "b", "c">> => e["session"] = JStr(<<"a", "b", "c">>)

\* session=7 sent together with minutes, from_dt and limit gave the numeric
\* predicate
C9_Witness ==
    /\ req # NoReq /\ resp.status = 200
    /\ {"session", "minutes", "from_dt", "limit"} \subseteq DOMAIN req.args
    /\ req.args["session"] = <<"7">>
    /\ resp.filter["session"] = JNum(7)

\* s is the text of an instant: a date-time body, alone or followed by "Z"
\* or a UTC offset
IsIsoInstant(s) ==
    /\ Len(s) \in {1, 2}
    /\ s[1] \in DOMAIN BodyInstant
    /\ Len(s) = 2 => s[2] \in {"Z"} \cup Offsets

\* the request has from_dt or to_dt with a non-empty value that is not an
\* instant
MalformedRange(args) ==
    \E k \in {"from_dt", "to_dt"} :
        k \in DOMAIN args /\ args[k] # <<>> /\ ~IsIsoInstant(args[k])

\* C10: a request to a filtered endpoint without minutes and with a
\* malformed from_dt or to_dt is answered with a client-class status and an
\* error object, and the store is not queried.
C10_MalformedInstantClientError ==
    ( /\ req # NoReq
      /\ req.endpoint \in FilteredEndpoints
      /\ "minutes" \notin DOMAIN req.args
      /\ MalformedRange(req.args) )
    => /\ resp.status \in 400..499
       /\ resp.error # ""
       /\ ~resp.queried

----------------------------------------------------------------------------
(* Claims on the worker and on the handling of one message *)

\* the message is one its topic's branch stores when nothing fails
ValidFor(m) ==
    \/ /\ m.topic = MQTT_TOPIC_IMU
       /\ HasAll(m, "acc", {"x", "y", "z"})
       /\ GyroObjectOrAbsent(m)
    \/ /\ m.topic = MQTT_TOPIC_GPS
       /\ HasAll(m, "gps", {"lat", "lon"})

\* the handling of m fails: undecodable payload, missing required field, or
\* an insert the store refuses
HandlingFails(m, up) ==
    \/ ~IsJson(m)
    \/ LacksRequired(m)
    \/ ValidFor(m) /\ ~up

\* C15: a message whose handling fails ends only its own handling: the
\* step leaves both collections, the worker and the main thread as they
\* were and returns; and in every state, so also after any number of such
\* failures, a valid non-retained message handled with the store up adds
\* its one record.
C15_FailureIsLocal ==
    [][ /\ (WaitReturns /\ mongo_ready /\ HandlingFails(cur, mongo_up)) =>
             /\ UNCHANGED storeVars
             /\ UNCHANGED workerVars
             /\ UNCHANGED startupVars
             /\ waited' = "true"
        /\ (WaitReturns /\ mongo_ready /\ mongo_up /\ ValidFor(cur)) =>
             /\ Len(imu') + Len(gps') = Len(imu) + Len(gps) + 1
             /\ cur.topic = MQTT_TOPIC_IMU => imu'[Len(imu')].received_at = clock
             /\ cur.topic = MQTT_TOPIC_GPS => gps'[Len(gps')].received_at = clock ]_vars

\* the worker delivered an undecodable message after a record had been
\* stored; the record is still there and the worker is still in its loop
C15_Witness ==
    /\ msg_pc = "done" /\ waited = "true"
    /\ cur.retain = 0
    /\ ~IsJson(cur)
    /\ worker_pc = "loop"
    /\ Len(imu) + Len(gps) = 1

BothTopics == {<<MQTT_TOPIC_IMU, 1>>, <<MQTT_TOPIC_GPS, 1>>}

C18_TimedOutMessageDropped ==
    [][ /\ (msg_pc = "waiting" /\ msg_pc' # msg_pc /\ ~mongo_ready) =>
             /\ msg_pc' = "done"
             /\ waited' = "timeout"
             /\ logs = 0 /\ logs' = 1
             /\ cur' = cur
             /\ UNCHANGED storeVars
        /\ waited = "timeout" =>
             /\ UNCHANGED storeVars
             /\ msg_pc = "done"
             /\ (cur' = cur /\ waited' = "timeout") => (logs' = logs /\ msg_pc' = "done") ]_vars

\* a complete IMU message timed out on the gate; the gate was set
\* afterwards, the store is up, and nothing was stored
C18_Witness ==
    /\ msg_pc = "done" /\ waited = "timeout"
    /\ cur.retain = 0
    /\ ValidFor(cur) /\ cur.topic = MQTT_TOPIC_IMU
    /\ mongo_ready /\ mongo_up
    /\ imu = <<>> /\ gps = <<>>
    /\ logs = 1

IsPrefix(s, t) == Len(s) <= Len(t) /\ SubSeq(t, 1, Len(s)) = s

\* C19: every step keeps the stored records of both collections as they
\* are and in place, and adds at most one record in all; a record is added
\* to imu only by the handling of an IMU-topic message, to gps only by the
\* handling of a GPS-topic message; a message of any other topic adds none.
C19_OneInsertOwnCollection ==
    [][ /\ IsPrefix(imu, imu') /\ IsPrefix(gps, gps')
        /\ Len(imu') + Len(gps') <= Len(imu) + Len(gps) + 1
        /\ imu' # imu => (WaitReturns /\ cur.topic = MQTT_TOPIC_IMU)
        /\ gps' # gps => (WaitReturns /\ cur.topic = MQTT_TOPIC_GPS)
        /\ (WaitReturns /\ cur.topic \notin {MQTT_TOPIC_IMU, MQTT_TOPIC_GPS}) =>
             UNCHANGED storeVars ]_vars

\* a message of another topic carrying acc, gyro and gps was handled with
\* the gate set and the store up while a record was stored
C19_Witness ==
    /\ msg_pc = "done" /\ waited = "true"
    /\ cur.topic = OtherTopic
    /\ HasAll(cur, "acc", {"x", "y", "z"}) /\ HasAll(cur, "gps", {"lat", "lon"})
    /\ mongo_up
    /\ Len(imu) + Len(gps) = 1

\* C20: a message delivered by the worker never times out on the gate: the
\* worker delivers only after its own wait saw the gate set, and the gate
\* is never cleared.
C20_WorkerDeliveryNeverTimesOut ==
    /\ waited # "timeout"
    /\ msg_pc = "waiting" => mongo_ready
    /\ worker_pc = "loop" => mongo_ready

\* the worker delivered a non-retained message and its wait returned true
C20_Witness ==
    /\ worker_pc = "loop"
    /\ msg_pc = "done" /\ waited = "true"
    /\ cur.retain = 0

----------------------------------------------------------------------------
(* Claims on the query operations over a filled store *)

Answered(endpoint) == req # NoReq /\ req.endpoint = endpoint

\* the response is one of the two storage failures
StorageFailure == resp.error \in {"MongoDB not connected", "PyMongoError"}

\* C11: whenever the store answers, list-sessions returns the union of the
\* distinct session values of imu and gps, each once, in strictly
\* descending order, whatever kinds of session value the records hold.
C11_SessionsUnionDescending ==
    (Answered("/api/sessions") /\ ~StorageFailure) =>
        /\ resp.status = 200
        /\ resp.body.kind = "list"
        /\ LET items == resp.body.items
               all   == Distinct(imu) \cup Distinct(gps)
           IN  /\ { items[k] : k \in 1..Len(items) } = all
               /\ Len(items) = Cardinality(all)
               /\ \A k \in 1..(Len(items) - 1) : PyLess(items[k + 1], items[k])

\* the instant an ISO text of a response stands for
InstantOfText(s) == BodyInstant[s[1]]

\* C12: whenever the store answers, latest-GPS succeeds whatever parameters
\* came with the request, with null when gps is empty and otherwise with a
\* stored fix than which none has a greater received_at: what it may
\* return is fixed by the gps collection alone.
C12_LatestIgnoresFilter ==
    Answered("/api/gps/latest") =>
        /\ resp.status = 500 => StorageFailure
        /\ resp.status = 200 =>
             IF gps = <<>>
             THEN resp.body = NullBody
             ELSE /\ resp.body.kind = "object"
                  /\ \E k \in 1..Len(gps) :
                       /\ \A j \in 1..Len(gps) : gps[j].received_at <= gps[k].received_at
                       /\ InstantOfText(resp.body.obj["received_at"]) = gps[k].received_at
                       /\ \A f \in DOMAIN gps[k] \ {"received_at"} :
                            resp.body.obj[f] = gps[k][f]

\* latest-GPS was asked with session=7 and limit=1 and answered the later
\* of two fixes, one that has no session
C12_Witness ==
    /\ Answered("/api/gps/latest")
    /\ resp.status = 200
    /\ "session" \in DOMAIN req.args /\ req.args["session"] = <<"7">>
    /\ Len(gps) = 2
    /\ gps[1].received_at < gps[2].received_at
    /\ gps[1].session = JNum(7) /\ gps[2].session = JNull
    /\ resp.body.kind = "object"
    /\ resp.body.obj["session"] = JNull

\* the positions of the IMU records that satisfy the filter sent to the store
MatchingImu == { k \in 1..Len(imu) : Matches(imu[k], resp.filter) }

\* C13: whenever the filter was built and the store answers, IMU-statistics
\* succeeds; its object is empty exactly when no IMU record matches; when
\* some match it holds their number as count and, per channel, the least
\* and the greatest value over them.
C13_StatsOverMatches ==
    (Answered("/api/imu/stats") /\ resp.queried /\ ~StorageFailure) =>
        /\ resp.status = 200
        /\ resp.body.kind = "object"
        /\ (DOMAIN resp.body.obj = {}) <=> (MatchingImu = {})
        /\ MatchingImu # {} =>
             /\ resp.body.obj.count = Cardinality(MatchingImu)
             /\ \A c \in Channels :
                  /\ \E k \in MatchingImu : resp.body.obj.min[c] = imu[k][c]
                  /\ \E k \in MatchingImu : resp.body.obj.max[c] = imu[k][c]
                  /\ \A k \in MatchingImu :
                       /\ resp.body.obj.min[c].n <= imu[k][c].n
                       /\ resp.body.obj.max[c].n >= imu[k][c].n

\* statistics were asked up to instant 1 over two records; only the first
\* is in the window, and the row holds its ax, not the 9 of the second
C13_Witness ==
    /\ Answered("/api/imu/stats")
    /\ resp.status = 200
    /\ "received_at" \in DOMAIN resp.filter
    /\ Len(imu) = 2
    /\ imu[1].ax = JNum(1) /\ imu[2].ax = JNum(9)
    /\ MatchingImu = {1}
    /\ resp.body.obj.count = 1
    /\ resp.body.obj.max["ax"] = JNum(1)

\* the request of a step that takes one can be served: its parameters
\* build a filter where the endpoint builds one, and the session values
\* can be ordered where the endpoint orders them
Servable(r) ==
    /\ r.endpoint \in FilteredEndpoints => _build_query(r.args, r.at).err = ""
    /\ r.endpoint = "/api/sessions" => Sortable(Distinct(imu) \cup Distinct(gps))

\* C14: every query operation answers a request taken while the store does
\* not answer, and would answer one taken without a storage handle, with
\* status 500 and an error object; the step leaves the server and the store
\* as they were; and in every state, so also after any number of failures,
\* a servable request taken while the store answers gets a 200.
C14_StorageFailureIsStructured ==
    [][ (req = NoReq /\ req' # NoReq) =>
          /\ req'.endpoint \in QueryEndpoints
          /\ resp'.status \in {200, 500}
          /\ ~mongo_up =>
               /\ resp'.status = 500
               /\ resp'.error # ""
               /\ resp'.body = ErrorBody
          /\ resp'.status = 500 => (resp'.error # "" /\ resp'.body = ErrorBody)
          /\ LET absent == IF req'.endpoint \in FilteredEndpoints
                           THEN Respond(req'.args, clock, "None", mongo_up)
                           ELSE Guarded("None", mongo_up, resp')
             IN  absent.status = 500 /\ absent.error = "MongoDB not connected"
          /\ UNCHANGED <<startupVars, workerVars, msgVars, storeVars>>
          /\ (mongo_up /\ Servable(req')) => resp'.status = 200 ]_vars

\* available-days was asked while the store did not answer, over a store
\* that holds records, and got the error object; the store answers again
C14_Witness ==
    /\ Answered("/api/days")
    /\ resp.status = 500
    /\ resp.error = "PyMongoError"
    /\ resp.body = ErrorBody
    /\ Len(imu) + Len(gps) > 0
    /\ mongo_up

\* the collection a listing endpoint reads
ListedCollection == IF req.endpoint = "/api/imu" THEN imu ELSE gps

\* C16: a listing that succeeds returns only records that match the filter,
\* in non-decreasing received_at order, those of smallest received_at when
\* it leaves some out, and never more than limit records (none when limit
\* is below 1); limit is 2000 when the parameter is absent.
C16_ListingCappedAtLimit ==
    ((Answered("/api/imu") \/ Answered("/api/gps")) /\ resp.status = 200) =>
        LET items    == resp.body.items
            matching == Find(ListedCollection, resp.filter)
            at(k)    == InstantOfText(items[k]["received_at"])
        IN  /\ "limit" \notin DOMAIN req.args => resp.limit = 2000
            /\ \A k \in 1..Len(items) :
                 \E j \in 1..Len(matching) :
                    /\ matching[j].received_at = at(k)
                    /\ matching[j].session = items[k]["session"]
            /\ \A k \in 1..(Len(items) - 1) : at(k) <= at(k + 1)
            /\ Len(items) < Len(matching) =>
                 \A j \in 1..Len(matching) :
                    matching[j].received_at >= at(Len(items))
                    \/ Cardinality({ k \in 1..Len(items) : at(k) = matching[j].received_at }) > 0
            /\ Len(items) <= (IF resp.limit < 0 THEN 0 ELSE resp.limit)

====
